---- MODULE Spec2Model ----
(***************************************************************************)
(* A model of im-rs' util.rs (ownership handles, the PoolLike backends     *)
(* FilePool and RefPool, swap_indices, linear_search_by, to_range) and of  *)
(* iter.rs (unfold).  Each component has a specification of its own; the   *)
(* variables of the other components keep their initial values under it.   *)
(***************************************************************************)
EXTENDS Integers, Sequences, FiniteSets, TLC

VARIABLES
    backend,          \* which PoolLike implementation (or plain Ref) the program is built on
    file_pool,        \* FilePool { changes, next_id }
    heap,             \* the reference-counted boxes behind PoolRef / Ref, by address
    refs,             \* the program's handle variables: None, or Some(id / address)
    origin,           \* history: per handle variable, the handle variables that derive from the same allocation
    calls,            \* history: FilePool's new_ref calls in order, each the value given and the id returned
    view,             \* the handle variable a `&'a mut Value` from make_mut borrows, if any
    last,             \* history: the last operation on the pool
    ret,              \* the value clone_ref returned last
    panicked,         \* a todo!() / unwrap() / index fault / overflow check unwound the program
    range,            \* to_range's argument: [start |-> Bound, end |-> Bound]
    right_unbounded,  \* to_range's second argument
    overflow_checks,  \* the build panics on integer overflow (debug) or wraps (release)
    range_out,        \* None, or Some(the Range<usize> to_range returned)
    iterable,         \* linear_search_by's sequence
    cmp,              \* linear_search_by's comparator, by element
    found,            \* None, or Some(the Result<usize, usize> linear_search_by returned)
    vector,           \* the container swap_indices works on
    swaps,            \* history: the last two swap_indices calls, each with the container before it
    f,                \* unfold's step function, by state
    seed,             \* unfold's initial state
    value,            \* unfold's captured `value: Option<S>`
    yielded,          \* history: the items the iterator returned
    fed,              \* history: the states the step function was called with
    ended,            \* the last pull returned None
    pulls             \* history: the number of calls of next()

poolVars == <<backend, file_pool, heap, refs, origin, calls, view, last, ret>>
rangeVars == <<range, right_unbounded, overflow_checks, range_out>>
searchVars == <<iterable, cmp, found>>
swapVars == <<vector, swaps>>
unfoldVars == <<f, seed, value, yielded, fed, ended, pulls>>

vars == <<poolVars, rangeVars, searchVars, swapVars, unfoldVars, panicked>>

notPool == <<rangeVars, searchVars, swapVars, unfoldVars>>
notRange == <<poolVars, searchVars, swapVars, unfoldVars>>
notSearch == <<poolVars, rangeVars, swapVars, unfoldVars>>
notSwap == <<poolVars, rangeVars, searchVars, unfoldVars>>
notUnfold == <<poolVars, rangeVars, searchVars, swapVars>>

----------------------------------------------------------------------------
(* Bounds of the model. *)

\* Values of the payload type T are 0 .. NumValues-1.
NumValues == 2
\* Handle variables the program holds.
NumHandles == 3
\* new_ref / default_ref calls on a FilePool per run (its next_id only grows).
MaxCalls == 3

Values == 0 .. (NumValues - 1)
Handles == 1 .. NumHandles
\* At most NumHandles boxes are live at a time; the allocator may reuse a freed address.
Addrs == 0 .. (NumHandles - 1)

----------------------------------------------------------------------------
(* Option<T> *)

None == <<>>
Some(x) == <<x>>
IsSome(o) == o # None
Unwrap(o) == o[1]

\* `Default::default()` of the payload type.
DefaultValue == 0

\* `A::clone` of a payload.
CloneValue(v) == v

----------------------------------------------------------------------------
(* FilePool *)

\* HashMap::insert
MapInsert(m, k, v) == [x \in (DOMAIN m) \cup {k} |-> IF x = k THEN v ELSE m[x]]

EmptyMap == [x \in {} |-> 0]

\* FilePool::new
FilePoolNew == [changes |-> EmptyMap, next_id |-> 0]

\* A plausible slip: the id counter is never advanced.
FilePool_new_ref_NoBump(self, val) ==
    [self |-> [self EXCEPT !.changes = MapInsert(self.changes, self.next_id, val)],
     ret  |-> self.next_id]

\* FilePool::new_ref: the pool after the call and the handle returned.
FilePool_new_ref(self, val) ==
    LET id == self.next_id
        s1 == [self EXCEPT !.next_id = self.next_id + 1]
        s2 == [s1 EXCEPT !.changes = MapInsert(s1.changes, s1.next_id, val)]
    IN  [self |-> s2, ret |-> id]

\* FilePool::default_ref
FilePool_default_ref(self) == FilePool_new_ref(self, DefaultValue)

\* FilePool::ptr_eq
FilePool_ptr_eq(left, right) == left = right

----------------------------------------------------------------------------
(* Reference-counted boxes: refpool::PoolRef<T> (RefPool) and Ref<A> = Rc / Arc *)

FreeBox == [live |-> FALSE, val |-> 0, count |-> 0]
NewBox(v) == [live |-> TRUE, val |-> v, count |-> 1]

FreeAddrs(h) == {a \in Addrs : ~h[a].live}

\* An allocator that hands out an address still in use.
AllocAddrs_Any(h) == Addrs

\* The addresses the allocator may return for a new box.
AllocAddrs(h) == FreeAddrs(h)

\* RefPool::new_ref at address a
RefPool_new_ref(h, a, val) == [h EXCEPT ![a] = NewBox(val)]

\* RefPool::default_ref at address a
RefPool_default_ref(h, a) == [h EXCEPT ![a] = NewBox(DefaultValue)]

\* RefPool::ptr_eq
RefPool_ptr_eq(left, right) == left = right

\* Clone of a handle: the count goes up.
IncCount(h, a) == [h EXCEPT ![a].count = @ + 1]

\* Drop of a handle: the count goes down, and the box is freed at zero.
DecCount(h, a) == IF h[a].count = 1 THEN [h EXCEPT ![a] = FreeBox]
                  ELSE [h EXCEPT ![a].count = @ - 1]

\* A make_mut that never clones.
IsShared_Never(h, a) == FALSE

\* More than one handle owns the box.
IsShared(h, a) == h[a].count > 1

\* A try_unwrap that never succeeds.
IsUnique_Never(h, a) == FALSE

\* Ref::try_unwrap succeeds: the handle is the only owner.
IsUnique(h, a) == h[a].count = 1

----------------------------------------------------------------------------
(* The PoolLike operations, as the program built on a backend calls them *)

Live(h) == IsSome(refs[h])
Target(h) == Unwrap(refs[h])

\* An operation and the number of times it invoked the payload's clone.
Op(op, clones) == [op |-> op, clones |-> clones]

\* History: handle variable h now holds a handle from a fresh allocation.
Fresh(o, h) == [k \in Handles |-> IF k = h THEN {h} ELSE o[k] \ {h}]

\* History: handle variable h2 now holds a clone of the handle in h.
Joined(o, h, h2) == [k \in Handles |-> IF k \in o[h] \cup {h2} THEN o[h] \cup {h2} ELSE o[k]]

\* History: handle variable h holds nothing any more.
Gone(o, h) == [k \in Handles |-> IF k = h THEN {} ELSE o[k] \ {h}]

PoolIdle(b) ==
    /\ backend = b
    /\ file_pool = FilePoolNew
    /\ heap = [a \in Addrs |-> FreeBox]
    /\ refs = [h \in Handles |-> None]
    /\ origin = [h \in Handles |-> {}]
    /\ calls = <<>>
    /\ view = None
    /\ last = Op("new", 0)
    /\ ret = None

\* The handle variable h is free to be used: no mutable view borrows it.
Unborrowed(h) == view # Some(h)

Alloc(h, op, val) ==
    /\ ~panicked
    /\ ~Live(h)
    /\ IF backend = "FilePool"
       THEN LET r == IF op = "default_ref" THEN FilePool_default_ref(file_pool)
                     ELSE FilePool_new_ref(file_pool, val)
            IN  /\ Len(calls) < MaxCalls
                /\ file_pool' = r.self
                /\ refs' = [refs EXCEPT ![h] = Some(r.ret)]
                /\ calls' = Append(calls, [value |-> val, ret |-> r.ret])
                /\ heap' = heap
       ELSE \E a \in AllocAddrs(heap) :
                /\ heap' = IF op = "default_ref" THEN RefPool_default_ref(heap, a)
                           ELSE RefPool_new_ref(heap, a, val)
                /\ refs' = [refs EXCEPT ![h] = Some(a)]
                /\ UNCHANGED <<file_pool, calls>>
    /\ origin' = Fresh(origin, h)
    /\ last' = Op(op, 0)
    /\ UNCHANGED <<backend, view, ret, panicked>>
    /\ UNCHANGED notPool

\* PoolLike::new_ref
NewRef(h, val) == backend \in {"FilePool", "RefPool"} /\ Alloc(h, "new_ref", val)

\* PoolLikeDefault::default_ref
DefaultRef(h) == backend \in {"FilePool", "RefPool"} /\ Alloc(h, "default_ref", DefaultValue)

\* Ref::new (Rc::new / Arc::new): the handles clone_ref is given
RefNew(h, val) ==
    /\ backend = "Ref"
    /\ ~panicked
    /\ ~Live(h)
    /\ \E a \in AllocAddrs(heap) :
            /\ heap' = [heap EXCEPT ![a] = NewBox(val)]
            /\ refs' = [refs EXCEPT ![h] = Some(a)]
    /\ origin' = Fresh(origin, h)
    /\ last' = Op("new_ref", 0)
    /\ UNCHANGED <<backend, file_pool, calls, view, ret, panicked>>
    /\ UNCHANGED notPool

\* PoolRef::clone / Ref::clone (a usize handle of FilePool is Copy)
CloneHandle(h, h2) ==
    /\ ~panicked
    /\ Live(h) /\ ~Live(h2)
    /\ Unborrowed(h) /\ Unborrowed(h2)
    /\ refs' = [refs EXCEPT ![h2] = refs[h]]
    /\ origin' = Joined(origin, h, h2)
    /\ heap' = IF backend = "FilePool" THEN heap ELSE IncCount(heap, Target(h))
    /\ last' = Op("clone", 0)
    /\ UNCHANGED <<backend, file_pool, calls, view, ret, panicked>>
    /\ UNCHANGED notPool

\* Drop of a handle (a usize handle of FilePool just goes out of scope)
DropHandle(h) ==
    /\ ~panicked
    /\ Live(h)
    /\ Unborrowed(h)
    /\ refs' = [refs EXCEPT ![h] = None]
    /\ origin' = Gone(origin, h)
    /\ heap' = IF backend = "FilePool" THEN heap ELSE DecCount(heap, Target(h))
    /\ last' = Op("drop", 0)
    /\ UNCHANGED <<backend, file_pool, calls, view, ret, panicked>>
    /\ UNCHANGED notPool

\* PoolLikeClone::make_mut for RefPool: refpool::PoolRef::make_mut
RefPoolMakeMut(h) ==
    /\ backend = "RefPool"
    /\ ~panicked
    /\ Live(h)
    /\ view = None
    /\ IF IsShared(heap, Target(h))
       THEN /\ \E a \in AllocAddrs(heap) :
                 LET v == CloneValue(heap[Target(h)].val)
                 IN  /\ heap' = DecCount(RefPool_new_ref(heap, a, v), Target(h))
                     /\ refs' = [refs EXCEPT ![h] = Some(a)]
            /\ origin' = Fresh(origin, h)
            /\ last' = Op("make_mut", 1)
       ELSE /\ last' = Op("make_mut", 0)
            /\ UNCHANGED <<heap, refs, origin>>
    /\ view' = Some(h)
    /\ UNCHANGED <<backend, file_pool, calls, ret, panicked>>
    /\ UNCHANGED notPool

\* A write through the `&mut Value` make_mut returned
WriteView(val) ==
    /\ ~panicked
    /\ IsSome(view)
    /\ heap' = [heap EXCEPT ![Target(Unwrap(view))].val = val]
    /\ last' = Op("write", last.clones)
    /\ UNCHANGED <<backend, file_pool, refs, origin, calls, view, ret, panicked>>
    /\ UNCHANGED notPool

\* The borrow of the handle ends
ReleaseView ==
    /\ ~panicked
    /\ IsSome(view)
    /\ view' = None
    /\ last' = Op("release", 0)
    /\ UNCHANGED <<backend, file_pool, heap, refs, origin, calls, ret, panicked>>
    /\ UNCHANGED notPool

\* PoolLikeClone::make_mut for FilePool: todo!()
FilePoolMakeMut(h) ==
    /\ backend = "FilePool"
    /\ ~panicked
    /\ Live(h)
    /\ panicked' = TRUE
    /\ last' = Op("make_mut", 0)
    /\ UNCHANGED <<backend, file_pool, heap, refs, origin, calls, view, ret>>
    /\ UNCHANGED notPool

\* clone_ref(r): Ref::try_unwrap(r).unwrap_or_else(|r| (*r).clone())
CloneRef(h) ==
    /\ backend = "Ref"
    /\ ~panicked
    /\ Live(h)
    /\ IF IsUnique(heap, Target(h))
       THEN /\ ret' = Some(heap[Target(h)].val)
            /\ heap' = [heap EXCEPT ![Target(h)] = FreeBox]
            /\ last' = Op("clone_ref", 0)
       ELSE /\ ret' = Some(CloneValue(heap[Target(h)].val))
            /\ heap' = DecCount(heap, Target(h))
            /\ last' = Op("clone_ref", 1)
    /\ refs' = [refs EXCEPT ![h] = None]
    /\ origin' = Gone(origin, h)
    /\ UNCHANGED <<backend, file_pool, calls, view, panicked>>
    /\ UNCHANGED notPool

PoolNext ==
    \/ \E h \in Handles, v \in Values : NewRef(h, v)
    \/ \E h \in Handles : DefaultRef(h)
    \/ \E h, h2 \in Handles : CloneHandle(h, h2)
    \/ \E h \in Handles : DropHandle(h)
    \/ \E h \in Handles : RefPoolMakeMut(h)
    \/ \E v \in Values : WriteView(v)
    \/ ReleaseView
    \/ \E h \in Handles : FilePoolMakeMut(h)

RefNext ==
    \/ \E h \in Handles, v \in Values : RefNew(h, v)
    \/ \E h, h2 \in Handles : CloneHandle(h, h2)
    \/ \E h \in Handles : DropHandle(h)
    \/ \E h \in Handles : CloneRef(h)


----------------------------------------------------------------------------
(* Properties of the pools *)

\* PoolLike::ptr_eq of the backend in use, on two live handle variables.
PtrEq(a, b) ==
    IF backend = "FilePool" THEN FilePool_ptr_eq(Target(a), Target(b))
    ELSE RefPool_ptr_eq(Target(a), Target(b))

\* The handle variables that own the box at address a.
Owners(a) == {k \in Handles : refs[k] = Some(a)}

\* C1: every handle FilePool::new_ref(v) returned is a key of the side table
\* `changes`, and the table maps it to v.
C1_NewRefRecordsUnderReturnedId ==
    backend = "FilePool" =>
        \A i \in 1 .. Len(calls) :
            /\ calls[i].ret \in DOMAIN file_pool.changes
            /\ file_pool.changes[calls[i].ret] = calls[i].value

\* C2 (I1): two live handles are ptr_eq exactly when they derive from the same
\* new_ref / default_ref call (one is a clone or copy of the other); the ids a
\* FilePool returns are strictly increasing, so no call reuses an earlier id.
C2_Identity ==
    /\ \A a, b \in Handles :
           Live(a) /\ Live(b) => (PtrEq(a, b) <=> b \in origin[a])
    /\ backend = "FilePool" =>
           \A i, j \in 1 .. Len(calls) : i < j => calls[i].ret < calls[j].ret

\* C2's case: on a FilePool, a handle and its copy, and a handle from a second
\* call that was given an equal payload.
C2_Witness ==
    /\ backend = "FilePool"
    /\ Len(calls) >= 2
    /\ calls[1].value = calls[2].value
    /\ \E a, b, c \in Handles :
           /\ a # c /\ Live(a) /\ Live(b) /\ Live(c)
           /\ c \in origin[a] /\ b \notin origin[a]
           /\ PtrEq(a, c) /\ ~PtrEq(a, b)

\* C3 (I2): while make_mut's view of h is held, h is the only owner of its box;
\* make_mut on a sole owner clones nothing and leaves h where it was, make_mut on
\* a shared handle clones the value once into a fresh box and rebinds h to it; a
\* write through the view changes the value seen through no other live handle.
C3_CopyOnWrite ==
    /\ [](backend = "RefPool" /\ IsSome(view) =>
            /\ Owners(Target(Unwrap(view))) = {Unwrap(view)}
            /\ heap[Target(Unwrap(view))].count = 1)
    /\ [][\A h \in Handles : RefPoolMakeMut(h) =>
            /\ \A k \in Handles \ {h} : Live(k) =>
                   /\ refs'[k] = refs[k]
                   /\ heap'[Target(k)].live
                   /\ heap'[Target(k)].val = heap[Target(k)].val
            /\ heap'[Unwrap(refs'[h])].val = heap[Target(h)].val
            /\ Owners(Target(h)) = {h} =>
                   /\ last'.clones = 0
                   /\ refs'[h] = refs[h]
            /\ Owners(Target(h)) # {h} =>
                   /\ last'.clones = 1
                   /\ ~heap[Unwrap(refs'[h])].live
                   /\ heap'[Target(h)].count = heap[Target(h)].count - 1
         ]_vars
    /\ [][\A v \in Values : WriteView(v) =>
            /\ heap'[Target(Unwrap(view))].val = v
            /\ \A k \in Handles \ {Unwrap(view)} : Live(k) =>
                   heap'[Target(k)].val = heap[Target(k)].val
         ]_vars

\* C3's case: a value was written through the view of a handle that make_mut had
\* to rebind to a clone, and another live handle still reads a different value.
C3_Witness ==
    /\ backend = "RefPool"
    /\ last = Op("write", 1)
    /\ IsSome(view)
    /\ \E k \in Handles \ {Unwrap(view)} :
           /\ Live(k)
           /\ heap[Target(k)].val # heap[Target(Unwrap(view))].val

\* C4: clone_ref of a sole owner returns the value with no clone and the box is
\* gone; clone_ref of a shared handle clones once, returns an equal value, and
\* the other owners keep their handles to the unchanged value, the owner count
\* reduced by the consumed handle alone.
C4_ReclaimOrClone ==
    [][\A h \in Handles : CloneRef(h) =>
          LET a == Target(h) IN
          /\ ret' = Some(heap[a].val)
          /\ ~IsSome(refs'[h])
          /\ \A k \in Handles \ {h} : refs'[k] = refs[k]
          /\ Owners(a) = {h} =>
                 /\ last'.clones = 0
                 /\ ~heap'[a].live
          /\ Owners(a) # {h} =>
                 /\ last'.clones = 1
                 /\ heap'[a].live
                 /\ heap'[a].val = heap[a].val
                 /\ heap'[a].count = heap[a].count - 1
                 /\ heap'[a].count = Cardinality(Owners(a) \ {h})
      ]_vars

\* C4's case: clone_ref consumed one of two owners and returned a clone of the
\* value the other owner still holds.
C4_Witness ==
    /\ backend = "Ref"
    /\ last = Op("clone_ref", 1)
    /\ \E k \in Handles : Live(k) /\ Some(heap[Target(k)].val) = ret

\* The other case of C4: clone_ref reclaimed the value of a sole owner.
C4_WitnessUnique ==
    /\ backend = "Ref"
    /\ last = Op("clone_ref", 0)
    /\ IsSome(ret)

----------------------------------------------------------------------------
(* to_range *)

\* usize is modelled as 0 .. UsizeMax.
UsizeMax == 15
Usize == 0 .. UsizeMax

\* std::ops::Bound<usize>
Included(i) == [kind |-> "Included", i |-> i]
Excluded(i) == [kind |-> "Excluded", i |-> i]
Unbounded == [kind |-> "Unbounded", i |-> 0]
Bounds == {Included(i) : i \in Usize} \cup {Excluded(i) : i \in Usize} \cup {Unbounded}

\* `*i + 1` on usize: a panic under overflow checks, a wrap to 0 without them.
AddOne(i, checks) ==
    IF i < UsizeMax THEN [panic |-> FALSE, val |-> i + 1]
    ELSE [panic |-> checks, val |-> 0]

Exact(i) == [panic |-> FALSE, val |-> i]

\* A start that forgets to step over an excluded bound.
StartIndex_ExcludedAsIncluded(b, checks) == Exact(b.i)

\* to_range: `let start_index = match range.start_bound()`
StartIndex(b, checks) ==
    CASE b.kind = "Included" -> Exact(b.i)
      [] b.kind = "Excluded" -> AddOne(b.i, checks)
      [] b.kind = "Unbounded" -> Exact(0)

\* An end that forgets to step over an included bound.
EndIndex_IncludedAsExcluded(b, ru, checks) ==
    IF b.kind = "Unbounded" THEN Exact(ru) ELSE Exact(b.i)

\* to_range: `let end_index = match range.end_bound()`
EndIndex(b, ru, checks) ==
    CASE b.kind = "Included" -> AddOne(b.i, checks)
      [] b.kind = "Excluded" -> Exact(b.i)
      [] b.kind = "Unbounded" -> Exact(ru)

\* to_range: the Range<usize> returned, or the overflow panic.
to_range(r, ru, checks) ==
    LET start_index == StartIndex(r.start, checks)
        end_index == EndIndex(r.end, ru, checks)
    IN  [panic |-> start_index.panic \/ end_index.panic,
         start |-> start_index.val,
         end   |-> end_index.val]

RangeIdle ==
    /\ range = [start |-> Unbounded, end |-> Unbounded]
    /\ right_unbounded = 0
    /\ overflow_checks = FALSE
    /\ range_out = None

\* A call of to_range
ToRange ==
    /\ ~panicked
    /\ range_out = None
    /\ LET r == to_range(range, right_unbounded, overflow_checks)
       IN  IF r.panic
           THEN panicked' = TRUE /\ range_out' = range_out
           ELSE panicked' = FALSE /\ range_out' = Some([start |-> r.start, end |-> r.end])
    /\ UNCHANGED <<range, right_unbounded, overflow_checks>>
    /\ UNCHANGED notRange

RangeNext == ToRange

----------------------------------------------------------------------------
(* linear_search_by *)

\* Elements of the sequence are 0 .. NumElems-1.
NumElems == 3
\* Length of the sequences searched and swapped.
MaxLen == 3

Elems == 0 .. (NumElems - 1)
Ordering == {"Less", "Equal", "Greater"}

\* Result<usize, usize>
Ok(i) == [ok |-> TRUE, pos |-> i]
Err(i) == [ok |-> FALSE, pos |-> i]

SeqsUpTo(S, n) == UNION {[1 .. k -> S] : k \in 0 .. n}

\* A search that does not stop at the first greater element.
RECURSIVE LinearSearchNoStop(_, _, _)
LinearSearchNoStop(xs, c, pos) ==
    IF pos >= Len(xs) THEN Err(pos)
    ELSE IF c[xs[pos + 1]] = "Equal" THEN Ok(pos)
    ELSE LinearSearchNoStop(xs, c, pos + 1)

linear_search_by_NoStop(xs, c) == LinearSearchNoStop(xs, c, 0)

\* linear_search_by's loop, from position pos on.
RECURSIVE LinearSearchFrom(_, _, _)
LinearSearchFrom(xs, c, pos) ==
    IF pos >= Len(xs) THEN Err(pos)
    ELSE CASE c[xs[pos + 1]] = "Equal" -> Ok(pos)
           [] c[xs[pos + 1]] = "Greater" -> Err(pos)
           [] c[xs[pos + 1]] = "Less" -> LinearSearchFrom(xs, c, pos + 1)

\* linear_search_by
linear_search_by(xs, c) == LinearSearchFrom(xs, c, 0)

SearchIdle ==
    /\ iterable = <<>>
    /\ cmp = [e \in Elems |-> "Less"]
    /\ found = None

\* A call of linear_search_by
LinearSearch ==
    /\ found = None
    /\ found' = Some(linear_search_by(iterable, cmp))
    /\ UNCHANGED <<iterable, cmp, panicked>>
    /\ UNCHANGED notSearch

SearchNext == LinearSearch

----------------------------------------------------------------------------
(* swap_indices *)

\* A swap that overwrites the first element before reading it.
swap_indices_NoTemp(v, a, b) ==
    IF a = b THEN [panic |-> FALSE, vector |-> v]
    ELSE IF a >= Len(v) \/ b >= Len(v) THEN [panic |-> TRUE, vector |-> v]
    ELSE [panic |-> FALSE, vector |-> [v EXCEPT ![a + 1] = v[b + 1]]]

\* swap_indices on a container of Len(v) elements, positions counted from 0:
\* the container after the call, or the index fault of `&mut vector[a]`.
swap_indices(v, a, b) ==
    IF a = b THEN [panic |-> FALSE, vector |-> v]
    ELSE IF a >= Len(v) \/ b >= Len(v) THEN [panic |-> TRUE, vector |-> v]
    ELSE LET pa == a + 1
             pb == b + 1
             tmp == v[pa]
             v1 == [v EXCEPT ![pa] = v[pb]]
             v2 == [v1 EXCEPT ![pb] = tmp]
         IN  [panic |-> FALSE, vector |-> v2]

SwapIdle ==
    /\ vector = <<>>
    /\ swaps = <<>>

\* History: the last two calls.
LastTwo(h) == IF Len(h) > 2 THEN Tail(h) ELSE h

\* A call of swap_indices
SwapIndices(a, b) ==
    /\ ~panicked
    /\ LET r == swap_indices(vector, a, b)
       IN  /\ vector' = r.vector
           /\ panicked' = r.panic
    /\ swaps' = LastTwo(Append(swaps, [a |-> a, b |-> b, before |-> vector]))
    /\ UNCHANGED notSwap

SwapNext == \E a, b \in 0 .. MaxLen : SwapIndices(a, b)

----------------------------------------------------------------------------
(* unfold *)

\* States of the step function are 0 .. NumStates-1.
NumStates == 4
\* Calls of next() per run.
MaxPulls == 6

States == 0 .. (NumStates - 1)

\* The step functions: from each state, done (None) or Some((item, next state)),
\* the item being the state or its successor.
StepFns ==
    {[s \in States |-> IF nx[s] = NumStates THEN None
                       ELSE Some([next |-> (s + sh) % NumStates, state |-> nx[s]])] :
        nx \in [States -> 0 .. NumStates], sh \in 0 .. 1}

\* A closure that reads the state without taking it.
FromFn_NoTake(step, val) ==
    IF val = None THEN [panic |-> TRUE, value |-> val, item |-> None]
    ELSE LET r == step[Unwrap(val)]
         IN  IF IsSome(r)
             THEN [panic |-> FALSE, value |-> Some(Unwrap(r).state), item |-> Some(Unwrap(r).next)]
             ELSE [panic |-> FALSE, value |-> val, item |-> None]

\* A closure that yields the new state in place of the item.
FromFn_YieldState(step, val) ==
    IF val = None THEN [panic |-> TRUE, value |-> None, item |-> None]
    ELSE LET r == step[Unwrap(val)]
         IN  IF IsSome(r)
             THEN [panic |-> FALSE, value |-> Some(Unwrap(r).state), item |-> Some(Unwrap(r).state)]
             ELSE [panic |-> FALSE, value |-> None, item |-> None]

\* The closure unfold hands to from_fn:
\* f(value.take().unwrap()).map(|(next, state)| { value = Some(state); next })
FromFn(step, val) ==
    LET taken == val
        v1 == None
    IN  IF taken = None THEN [panic |-> TRUE, value |-> v1, item |-> None]
        ELSE LET r == step[Unwrap(taken)]
             IN  IF IsSome(r)
                 THEN [panic |-> FALSE, value |-> Some(Unwrap(r).state),
                       item |-> Some(Unwrap(r).next)]
                 ELSE [panic |-> FALSE, value |-> v1, item |-> None]

UnfoldIdle ==
    /\ f = [s \in States |-> None]
    /\ seed = 0
    /\ value = None
    /\ yielded = <<>>
    /\ fed = <<>>
    /\ ended = FALSE
    /\ pulls = 0

\* A call of next() on the iterator unfold returned
Pull ==
    /\ ~panicked
    /\ pulls < MaxPulls
    /\ LET r == FromFn(f, value)
       IN  /\ value' = r.value
           /\ panicked' = r.panic
           /\ yielded' = IF IsSome(r.item) THEN Append(yielded, Unwrap(r.item)) ELSE yielded
           /\ ended' = IF r.panic THEN ended ELSE ~IsSome(r.item)
    /\ fed' = IF IsSome(value) THEN Append(fed, Unwrap(value)) ELSE fed
    /\ pulls' = pulls + 1
    /\ UNCHANGED <<f, seed>>
    /\ UNCHANGED notUnfold

UnfoldNext == Pull

----------------------------------------------------------------------------
(* The specifications *)

PoolInit ==
    /\ \E b \in {"FilePool", "RefPool"} : PoolIdle(b)
    /\ RangeIdle /\ SearchIdle /\ SwapIdle /\ UnfoldIdle
    /\ panicked = FALSE

RefInit ==
    /\ PoolIdle("Ref")
    /\ RangeIdle /\ SearchIdle /\ SwapIdle /\ UnfoldIdle
    /\ panicked = FALSE

\* to_range is given any pair of bounds and any right_unbounded, in either build.
RangeInit ==
    /\ range \in [start : Bounds, end : Bounds]
    /\ right_unbounded \in Usize
    /\ overflow_checks \in BOOLEAN
    /\ range_out = None
    /\ PoolIdle("Ref") /\ SearchIdle /\ SwapIdle /\ UnfoldIdle
    /\ panicked = FALSE

\* linear_search_by is given any sequence and any comparator.
SearchInit ==
    /\ iterable \in SeqsUpTo(Elems, MaxLen)
    /\ cmp \in [Elems -> Ordering]
    /\ found = None
    /\ PoolIdle("Ref") /\ RangeIdle /\ SwapIdle /\ UnfoldIdle
    /\ panicked = FALSE

\* swap_indices is given any container.
SwapInit ==
    /\ vector \in SeqsUpTo(Values, MaxLen)
    /\ swaps = <<>>
    /\ PoolIdle("Ref") /\ RangeIdle /\ SearchIdle /\ UnfoldIdle
    /\ panicked = FALSE

\* unfold(value, f): `let mut value = Some(value)`
UnfoldInit ==
    /\ f \in StepFns
    /\ seed \in States
    /\ value = Some(seed)
    /\ yielded = <<>>
    /\ fed = <<>>
    /\ ended = FALSE
    /\ pulls = 0
    /\ PoolIdle("Ref") /\ RangeIdle /\ SearchIdle /\ SwapIdle
    /\ panicked = FALSE

\* A program built on one of the two PoolLike backends.
SpecPool == PoolInit /\ [][PoolNext]_vars

\* A program that shares values through plain Ref handles and reclaims them with clone_ref.
SpecRef == RefInit /\ [][RefNext]_vars

SpecRange == RangeInit /\ [][RangeNext]_vars

SpecSearch == SearchInit /\ [][SearchNext]_vars

SpecSwap == SwapInit /\ [][SwapNext]_vars

SpecUnfold == UnfoldInit /\ [][UnfoldNext]_vars

----------------------------------------------------------------------------
(* Properties of to_range *)

\* The integer a bound carries: 0 for an unbounded start, right_unbounded for an
\* unbounded end.
StartInt == IF range.start.kind = "Unbounded" THEN 0 ELSE range.start.i
EndInt == IF range.end.kind = "Unbounded" THEN right_unbounded ELSE range.end.i

\* RangeBounds::contains: x lies within the bounds given.
InBounds(x) ==
    /\ CASE range.start.kind = "Included" -> range.start.i <= x
         [] range.start.kind = "Excluded" -> range.start.i < x
         [] range.start.kind = "Unbounded" -> TRUE
    /\ CASE range.end.kind = "Included" -> x <= range.end.i
         [] range.end.kind = "Excluded" -> x < range.end.i
         [] range.end.kind = "Unbounded" -> TRUE

Returned == Unwrap(range_out)

\* C5: with right_unbounded = 10 and bounds over 0..10, to_range returns [s, e)
\* with s = i, i+1 or 0 and e = j+1, j or right_unbounded for an included,
\* excluded or unbounded bound, which holds the same integers below
\* right_unbounded as the bounds given.
C5_RangeNormalization ==
    (right_unbounded = 10 /\ StartInt \in 0 .. 10 /\ EndInt \in 0 .. 10) =>
        /\ ~panicked
        /\ IsSome(range_out) =>
            /\ Returned.start = CASE range.start.kind = "Included" -> range.start.i
                                  [] range.start.kind = "Excluded" -> range.start.i + 1
                                  [] range.start.kind = "Unbounded" -> 0
            /\ Returned.end = CASE range.end.kind = "Included" -> range.end.i + 1
                                [] range.end.kind = "Excluded" -> range.end.i
                                [] range.end.kind = "Unbounded" -> right_unbounded
            /\ {x \in 0 .. (right_unbounded - 1) : Returned.start <= x /\ x < Returned.end}
                   = {x \in 0 .. (right_unbounded - 1) : InBounds(x)}

\* C5's case: Excluded(2)..Included(5) was normalized to 3..6.
C5_Witness ==
    /\ range = [start |-> Excluded(2), end |-> Included(5)]
    /\ right_unbounded = 10
    /\ range_out = Some([start |-> 3, end |-> 6])

\* The bounds are consistent: the start's integer is not greater than the end's.
Consistent == StartInt <= EndInt

\* C6 as stated: to_range returns start <= end whenever the bounds are
\* consistent, for all nine combinations of bound kinds.
C6_StartLeEndWheneverConsistent ==
    (Consistent /\ IsSome(range_out)) => Returned.start <= Returned.end

\* The start is excluded and the end, excluded or unbounded, carries the same integer.
ExcludedOnSameInt ==
    /\ range.start.kind = "Excluded"
    /\ range.end.kind \in {"Excluded", "Unbounded"}
    /\ StartInt = EndInt

\* No bound carries usize::MAX, so no `*i + 1` overflows.
BelowMax == range.start.i < UsizeMax /\ range.end.i < UsizeMax

\* C6 as amended: for bounds below usize::MAX that are consistent, to_range
\* returns, and start <= end except when the start is Excluded(i) and the end is
\* Excluded(i), or unbounded with right_unbounded = i: then it returns (i+1)..i.
C6_StartLeEndUnlessExcludedOnSameInt ==
    (Consistent /\ BelowMax) =>
        /\ ~panicked
        /\ IsSome(range_out) =>
            IF ExcludedOnSameInt
            THEN Returned.start = StartInt + 1 /\ Returned.end = StartInt
            ELSE Returned.start <= Returned.end

\* C6's case: the consistent bounds Excluded(3)..Excluded(3) were normalized, to 4..3.
C6_Witness ==
    /\ range = [start |-> Excluded(3), end |-> Excluded(3)]
    /\ Consistent /\ BelowMax
    /\ range_out = Some([start |-> 4, end |-> 3])

----------------------------------------------------------------------------
(* Properties of linear_search_by *)

Rank(o) == CASE o = "Less" -> 0 [] o = "Equal" -> 1 [] o = "Greater" -> 2

\* The sequence is sorted ascending under the comparator.
SortedUnder(xs, c) ==
    \A i, j \in 1 .. Len(xs) : i < j => Rank(c[xs[i]]) <= Rank(c[xs[j]])

Min(S) == CHOOSE x \in S : \A y \in S : x <= y

\* The binary search of the standard library (slice::binary_search_by), the
\* search linear_search_by is compared with: on [left, right).
RECURSIVE BinarySearchIn(_, _, _, _)
BinarySearchIn(xs, c, left, right) ==
    IF left >= right THEN Err(left)
    ELSE LET mid == left + ((right - left) \div 2)
         IN  CASE c[xs[mid + 1]] = "Less" -> BinarySearchIn(xs, c, mid + 1, right)
               [] c[xs[mid + 1]] = "Greater" -> BinarySearchIn(xs, c, left, mid)
               [] c[xs[mid + 1]] = "Equal" -> Ok(mid)

BinarySearchBy(xs, c) == BinarySearchIn(xs, c, 0, Len(xs))

\* The positions (from 0) of the elements that compare o.
Positions(o) == {i \in 0 .. (Len(iterable) - 1) : cmp[iterable[i + 1]] = o}

\* C7: on a sequence sorted under the comparator, linear_search_by returns Ok of
\* the first position comparing Equal, or with none Err of the first position
\* comparing Greater (the length if there is none); Err carries the insertion
\* point binary search reports, and Ok is returned exactly when binary search
\* finds a match.
C7_LinearSearch ==
    (IsSome(found) /\ SortedUnder(iterable, cmp)) =>
        /\ Positions("Equal") # {} => Unwrap(found) = Ok(Min(Positions("Equal")))
        /\ Positions("Equal") = {} =>
               Unwrap(found) = Err(IF Positions("Greater") # {}
                                   THEN Min(Positions("Greater")) ELSE Len(iterable))
        /\ Unwrap(found).ok <=> BinarySearchBy(iterable, cmp).ok
        /\ ~Unwrap(found).ok => Unwrap(found) = BinarySearchBy(iterable, cmp)

\* C7's case: a sorted sequence with elements comparing Less, then Greater, and
\* none Equal, was searched: the result is the insertion point between them.
C7_Witness ==
    /\ SortedUnder(iterable, cmp)
    /\ Len(iterable) = MaxLen
    /\ cmp[iterable[1]] = "Less" /\ cmp[iterable[2]] = "Less"
    /\ cmp[iterable[3]] = "Greater"
    /\ found = Some(Err(2))

----------------------------------------------------------------------------
(* Properties of swap_indices *)

\* The container after the k-th of the recorded calls.
After(k) == IF k < Len(swaps) THEN swaps[k + 1].before ELSE vector

InBoundsOf(v, a) == a < Len(v)

\* C8: a call with in-bounds positions a and b exchanges the elements at a and b
\* and leaves every other position as it was; the same distinct pair swapped
\* twice restores the container, and a position swapped with itself changes nothing.
C8_SwapIndices ==
    /\ \A k \in 1 .. Len(swaps) :
         LET s == swaps[k] IN
         (InBoundsOf(s.before, s.a) /\ InBoundsOf(s.before, s.b)) =>
            /\ k = Len(swaps) => ~panicked
            /\ Len(After(k)) = Len(s.before)
            /\ After(k)[s.a + 1] = s.before[s.b + 1]
            /\ After(k)[s.b + 1] = s.before[s.a + 1]
            /\ \A i \in 1 .. Len(s.before) :
                   i \notin {s.a + 1, s.b + 1} => After(k)[i] = s.before[i]
            /\ s.a = s.b => After(k) = s.before
    /\ (/\ Len(swaps) = 2
        /\ {swaps[1].a, swaps[1].b} = {swaps[2].a, swaps[2].b}
        /\ InBoundsOf(swaps[1].before, swaps[1].a)
        /\ InBoundsOf(swaps[1].before, swaps[1].b)) => vector = swaps[1].before

\* C8's case: two different elements were exchanged and a second swap of the
\* same pair put them back.
C8_Witness ==
    /\ Len(swaps) = 2
    /\ swaps[1].a # swaps[1].b
    /\ swaps[2].a = swaps[1].a /\ swaps[2].b = swaps[1].b
    /\ InBoundsOf(vector, swaps[1].a) /\ InBoundsOf(vector, swaps[1].b)
    /\ swaps[2].before # swaps[1].before
    /\ vector = swaps[1].before

----------------------------------------------------------------------------
(* Properties of unfold *)

\* The state the step function is given on pull k+1, counted from the seed: None
\* once the step function has returned done.
RECURSIVE Orbit(_)
Orbit(k) ==
    IF k = 0 THEN Some(seed)
    ELSE LET p == Orbit(k - 1)
         IN  IF p = None \/ f[Unwrap(p)] = None THEN None
             ELSE Some(Unwrap(f[Unwrap(p)]).state)

\* The pulls (from 0) on which the step function returns done.
DoneAt == {k \in 0 .. MaxPulls : IsSome(Orbit(k)) /\ f[Unwrap(Orbit(k))] = None}

\* C9: the k-th pull feeds the step function the state the (k-1)-th pull left
\* and yields its output, so the items are the outputs of step(s0), step(s1), ...
\* in order; the sequence ends on the first pull on which the step function
\* returns done, and ends at all exactly when the step function does so.
C9_Unfold ==
    /\ \A k \in 1 .. Len(fed) : Orbit(k - 1) = Some(fed[k])
    /\ \A k \in 1 .. Len(yielded) :
           /\ f[fed[k]] # None
           /\ yielded[k] = Unwrap(f[fed[k]]).next
    /\ Len(fed) = Len(yielded) + (IF ended THEN 1 ELSE 0)
    /\ ended <=> (fed # <<>> /\ f[fed[Len(fed)]] = None)
    /\ ended <=> \E k \in DoneAt : k < pulls
    /\ ~panicked => Len(fed) = pulls

\* C9's case: seed 0 and the step n -> (n, n+1) while n < 3 yielded 0, 1, 2 and ended.
C9_Witness ==
    /\ seed = 0
    /\ \A n \in States : f[n] = IF n < 3 THEN Some([next |-> n, state |-> n + 1]) ELSE None
    /\ yielded = <<0, 1, 2>>
    /\ ended

\* C10: between pulls the cursor holds a state exactly when no pull has reported
\* the end; the pull on which the step function returns done leaves no state;
\* a pull after the end faults on the absent state, reports nothing and does
\* not call the step function again.
C10_NoStateAfterEnd ==
    /\ [](IsSome(value) <=> ~ended)
    /\ [][(Pull /\ ~ended /\ f[Unwrap(value)] = None) => (value' = None /\ ended' /\ ~panicked')]_vars
    /\ [][(Pull /\ ended) =>
            (panicked' /\ fed' = fed /\ yielded' = yielded /\ value' = None /\ ended')]_vars

\* C10's case: a pull after the end of the sequence faulted.
C10_Witness ==
    /\ ended
    /\ panicked
    /\ pulls = Len(fed) + 1

====
